---------------------------- MODULE Spec2Model ----------------------------
(***************************************************************************)
(* Model of src/src/main.rs: the tile editor (TileSystem) and the wave     *)
(* function collapse scaffolding (SuperpositionState,                      *)
(* create_superposition_grid, build_adjacency_rules).                      *)
(*                                                                         *)
(* Vectors are sequences.  The source indexes from 0, sequences from 1:    *)
(* the source's v[i] is written v[i + 1] here, and every index variable    *)
(* keeps the source's 0-based value.                                       *)
(***************************************************************************)
EXTENDS Integers, Sequences, FiniteSets, TLC

VARIABLES
    \* ---- the wave function collapse functions (pure; WfcSpec) ----
    input_grid,          \* the sample grid handed to the functions
    tile_to_id,          \* the tile_to_id closure handed to the functions
    wfc_call,            \* the call made: <<function name, scalar argument>>
    adjacency,           \* outcome of build_adjacency_rules
    superposition_grid,  \* value returned by create_superposition_grid
    sps,                 \* value returned by SuperpositionState::new / from_tile
    \* ---- TileSystem (Spec, ConfigSpec) ----
    tiles,               \* TileSystem.tiles: Vec<Vec<Tile>>
    grid_width,          \* TileSystem.grid_width
    grid_height,         \* TileSystem.grid_height
    saved_configs,       \* TileSystem.saved_configs: the entries of the HashMap
    palette,             \* the tile types the user selects in this run
    pc,                  \* "idle", "fill" (inside fill_to_border's loop), "panicked"
    op,                  \* the last call: <<method name, arguments...>>
    ret,                 \* the value the last call returned
    original_tile,       \* fill_to_border's local original_tile
    visited,             \* fill_to_border's local visited
    stack,               \* fill_to_border's local stack
    \* ---- history (read by the properties only) ----
    tiles_at_fill,       \* tiles as they were when the last fill_to_border began
    tiles_at_save        \* per name: tiles at the last save_config not yet deleted

wfc_vars == <<input_grid, tile_to_id, wfc_call, adjacency, superposition_grid, sps>>

fill_vars == <<original_tile, visited, stack>>

sys_vars == <<tiles, grid_width, grid_height, saved_configs, palette, pc, op, ret,
              fill_vars, tiles_at_fill, tiles_at_save>>

vars == <<wfc_vars, sys_vars>>

-----------------------------------------------------------------------------
(* Bounds of the model *)

\* largest number of rows of a sample grid
MaxRows == 2
\* largest length of a row of a sample grid
MaxCols == 2
\* largest unique_tile_count / tile_count handed to the constructors
MaxTileCount == 3
\* largest tile_id handed to SuperpositionState::from_tile
MaxTileId == 3
\* largest number of cells (grid_width * grid_height) of a TileSystem
MaxCells == 4

-----------------------------------------------------------------------------
(* Types *)

\* enum TileType
TileType == {"Empty", "Mountain", "Land", "Coast", "Water"}

\* enum Direction
Direction == {"Up", "Down", "Left", "Right"}

\* usize arithmetic is modular.  The width is scaled down (Rust's is 2^64) so
\* that the values stay inside the model checker's integers; what matters is
\* that the modulus exceeds every length of the model.
UsizeModulus == 2 ^ 16

\* usize::wrapping_sub
WrappingSub(a, b) == (a - b + UsizeModulus) % UsizeModulus

\* the closure of sps_usage_test
SpsTileToId ==
    [t \in TileType |->
        CASE t = "Empty" -> 0
          [] t = "Mountain" -> 1
          [] t = "Land" -> 2
          [] t = "Coast" -> 3
          [] t = "Water" -> 4]

-----------------------------------------------------------------------------
(* Tile *)

\* Tile::new; a colour [f32; 4] is written in tenths
Tile_new(tile_type, colour) == [colour |-> colour, tile_type |-> tile_type, visible |-> TRUE]

\* Tile::empty, ::mountain, ::land, ::coast, ::water
Tile_empty == Tile_new("Empty", <<0, 0, 0, 0>>)
Tile_mountain == Tile_new("Mountain", <<5, 5, 5, 10>>)
Tile_land == Tile_new("Land", <<3, 8, 4, 10>>)
Tile_coast == Tile_new("Coast", <<8, 7, 6, 10>>)
Tile_water == Tile_new("Water", <<2, 4, 8, 10>>)

\* the match from a TileType to its Tile (load_config, main's click handlers)
TileOfType(tile_type) ==
    CASE tile_type = "Empty" -> Tile_empty
      [] tile_type = "Mountain" -> Tile_mountain
      [] tile_type = "Land" -> Tile_land
      [] tile_type = "Coast" -> Tile_coast
      [] tile_type = "Water" -> Tile_water

\* Option
Some(v) == <<v>>
None == << >>

-----------------------------------------------------------------------------
(* SuperpositionState *)

\* HashSet<usize> collected from the range 0..tile_count
RangeSet(n) == 0..(n - 1)

\* a state that is marked collapsed as soon as at most one possibility is left
SuperpositionState_new_CollapsedWhenSmall(tile_count) ==
    LET possible_tiles == RangeSet(tile_count)
        entropy == Cardinality(possible_tiles)
    IN  [possible_tiles |-> possible_tiles, collapsed |-> entropy <= 1, entropy |-> entropy]

\* SuperpositionState::new
SuperpositionState_new(tile_count) ==
    LET possible_tiles == RangeSet(tile_count)
        entropy == Cardinality(possible_tiles)
    IN  [possible_tiles |-> possible_tiles, collapsed |-> FALSE, entropy |-> entropy]

\* SuperpositionState::from_tile
SuperpositionState_from_tile(tile_id) ==
    LET possible_tiles == {} \cup {tile_id}
    IN  [possible_tiles |-> possible_tiles, collapsed |-> TRUE, entropy |-> 1]

\* every row sized by its own input row instead of by the first row
create_superposition_grid_PerRowCols(grid, unique_tile_count) ==
    [r \in 1..Len(grid) |->
        [c \in 1..Len(grid[r]) |-> SuperpositionState_new(unique_tile_count)]]

\* a wave that always has at least one column
create_superposition_grid_AtLeastOneCol(grid, unique_tile_count) ==
    LET rows == Len(grid)
    IN  IF rows = 0
        THEN << >>
        ELSE LET cols == IF Len(grid[1]) = 0 THEN 1 ELSE Len(grid[1])
             IN  [r \in 1..rows |->
                    [c \in 1..cols |-> SuperpositionState_new(unique_tile_count)]]

\* create_superposition_grid
create_superposition_grid(grid, unique_tile_count) ==
    LET rows == Len(grid)
    IN  IF rows = 0
        THEN << >>
        ELSE LET cols == Len(grid[1])
             IN  [r \in 1..rows |->
                    [c \in 1..cols |-> SuperpositionState_new(unique_tile_count)]]

-----------------------------------------------------------------------------
(* build_adjacency_rules *)

\* the vertical directions carry each other's label
DirectionsMislabelled(row_idx, col_idx) ==
    << <<"Down", WrappingSub(row_idx, 1), col_idx>>,
       <<"Up", row_idx + 1, col_idx>>,
       <<"Left", row_idx, WrappingSub(col_idx, 1)>>,
       <<"Right", row_idx, col_idx + 1>> >>

\* the Left neighbour is computed like the Right one
DirectionsLeftIsRight(row_idx, col_idx) ==
    << <<"Up", WrappingSub(row_idx, 1), col_idx>>,
       <<"Down", row_idx + 1, col_idx>>,
       <<"Left", row_idx, col_idx + 1>>,
       <<"Right", row_idx, col_idx + 1>> >>

\* the directions array built for the cell (row_idx, col_idx)
Directions(row_idx, col_idx) ==
    << <<"Up", WrappingSub(row_idx, 1), col_idx>>,
       <<"Down", row_idx + 1, col_idx>>,
       <<"Left", row_idx, WrappingSub(col_idx, 1)>>,
       <<"Right", row_idx, col_idx + 1>> >>

\* the guard of the inner loop
NeighbourGuard(r, c, rows, cols, row_idx, col_idx) ==
    r < rows /\ c < cols /\ ~(r = row_idx /\ c = col_idx)

\* adjacency.entry(tile_id).or_insert_with(HashSet::new)
EntryOrInsert(map, tile_id) ==
    IF tile_id \in DOMAIN map
    THEN map
    ELSE [k \in DOMAIN map \cup {tile_id} |-> IF k = tile_id THEN {} ELSE map[k]]

\* An outcome of the function so far: the map, or a panic (an index out of
\* range in input_grid[r][c]).
Outcome(panicked, map) == [panicked |-> panicked, map |-> map]

\* the loop `for (dir, r, c) in directions`, from its k-th element on
RECURSIVE DirectionLoop(_, _, _, _, _, _, _)
DirectionLoop(out, grid, id_of, row_idx, col_idx, tile_id, k) ==
    IF out.panicked \/ k > 4
    THEN out
    ELSE LET d == Directions(row_idx, col_idx)[k]
             dir == d[1]
             r == d[2]
             c == d[3]
             rows == Len(grid)
             cols == Len(grid[row_idx + 1])
         IN  IF NeighbourGuard(r, c, rows, cols, row_idx, col_idx)
             THEN IF c >= Len(grid[r + 1])
                  THEN Outcome(TRUE, out.map)
                  ELSE LET neighbour_id == id_of[grid[r + 1][c + 1]]
                       IN  DirectionLoop(
                               Outcome(FALSE,
                                       [out.map EXCEPT
                                           ![tile_id] = @ \cup {<<dir, neighbour_id>>}]),
                               grid, id_of, row_idx, col_idx, tile_id, k + 1)
             ELSE DirectionLoop(out, grid, id_of, row_idx, col_idx, tile_id, k + 1)

\* the two nested loops over the cells, from the cell (row_idx, col_idx) on
RECURSIVE CellLoop(_, _, _, _, _)
CellLoop(out, grid, id_of, row_idx, col_idx) ==
    IF out.panicked \/ row_idx >= Len(grid)
    THEN out
    ELSE IF col_idx >= Len(grid[row_idx + 1])
         THEN CellLoop(out, grid, id_of, row_idx + 1, 0)
         ELSE LET tile_id == id_of[grid[row_idx + 1][col_idx + 1]]
                  entered == Outcome(FALSE, EntryOrInsert(out.map, tile_id))
              IN  CellLoop(
                      DirectionLoop(entered, grid, id_of, row_idx, col_idx, tile_id, 1),
                      grid, id_of, row_idx, col_idx + 1)

\* build_adjacency_rules
build_adjacency_rules(grid, id_of) ==
    CellLoop(Outcome(FALSE, << >>), grid, id_of, 0, 0)

-----------------------------------------------------------------------------
(* The functions applied to bounded inputs *)

\* the tile types the sample grids are drawn from
SampleTypes == {"Empty", "Land", "Water"}

\* the rows of a sample grid
SampleRows == UNION {[1..n -> SampleTypes] : n \in 0..MaxCols}

\* the sample grids: Vec<Vec<TileType>>, rows of any lengths
SampleGrids == UNION {[1..n -> SampleRows] : n \in 0..MaxRows}

\* a closure that maps two tile types to one id
MergingTileToId == [t \in TileType |-> IF t = "Empty" THEN 0 ELSE 1]

NoOutcome == Outcome(FALSE, << >>)

NoSps == [possible_tiles |-> {}, collapsed |-> FALSE, entropy |-> 0]

\* the TileSystem part of the state while only the pure functions run
SysUnused ==
    /\ tiles = << >>
    /\ grid_width = 0
    /\ grid_height = 0
    /\ saved_configs = {}
    /\ palette = {}
    /\ pc = "idle"
    /\ op = <<"new">>
    /\ ret = None
    /\ original_tile = "Empty"
    /\ visited = << >>
    /\ stack = << >>
    /\ tiles_at_fill = << >>
    /\ tiles_at_save = << >>

WfcInit ==
    /\ SysUnused
    /\ input_grid \in SampleGrids
    /\ tile_to_id \in {SpsTileToId, MergingTileToId}
    /\ wfc_call = <<"none", 0>>
    /\ adjacency = NoOutcome
    /\ superposition_grid = << >>
    /\ sps = NoSps

BuildAdjacencyRules ==
    /\ wfc_call = <<"none", 0>>
    /\ wfc_call' = <<"build_adjacency_rules", 0>>
    /\ adjacency' = build_adjacency_rules(input_grid, tile_to_id)
    /\ UNCHANGED <<input_grid, tile_to_id, superposition_grid, sps>>
    /\ UNCHANGED sys_vars

CreateSuperpositionGrid ==
    /\ wfc_call = <<"none", 0>>
    /\ \E unique_tile_count \in 0..MaxTileCount :
        /\ wfc_call' = <<"create_superposition_grid", unique_tile_count>>
        /\ superposition_grid' = create_superposition_grid(input_grid, unique_tile_count)
    /\ UNCHANGED <<input_grid, tile_to_id, adjacency, sps>>
    /\ UNCHANGED sys_vars

SuperpositionStateNew ==
    /\ wfc_call = <<"none", 0>>
    /\ \E tile_count \in 0..MaxTileCount :
        /\ wfc_call' = <<"SuperpositionState::new", tile_count>>
        /\ sps' = SuperpositionState_new(tile_count)
    /\ UNCHANGED <<input_grid, tile_to_id, adjacency, superposition_grid>>
    /\ UNCHANGED sys_vars

SuperpositionStateFromTile ==
    /\ wfc_call = <<"none", 0>>
    /\ \E tile_id \in 0..MaxTileId :
        /\ wfc_call' = <<"SuperpositionState::from_tile", tile_id>>
        /\ sps' = SuperpositionState_from_tile(tile_id)
    /\ UNCHANGED <<input_grid, tile_to_id, adjacency, superposition_grid>>
    /\ UNCHANGED sys_vars

WfcNext ==
    \/ BuildAdjacencyRules
    \/ CreateSuperpositionGrid
    \/ SuperpositionStateNew
    \/ SuperpositionStateFromTile

WfcSpec == WfcInit /\ [][WfcNext]_vars

-----------------------------------------------------------------------------
(* TileSystem *)

\* the value of a call that returns ()
Unit == <<"()">>

\* the grid TileSystem::new builds: grid_height rows of grid_width empty tiles
TileSystem_new_tiles(width, height) ==
    [y \in 1..height |-> [x \in 1..width |-> Tile_empty]]

\* TileSystem::get_tile
get_tile(ts_tiles, width, height, x, y) ==
    IF x < width /\ y < height
    THEN Some(ts_tiles[y + 1][x + 1])
    ELSE None

\* TileSystem::set_tile: the grid after the call, the value returned, and
\* whether the index expression self.tiles[x][y] panicked
set_tile(ts_tiles, width, height, x, y, tile) ==
    IF x < width /\ y < height
    THEN IF x < Len(ts_tiles) /\ y < Len(ts_tiles[x + 1])
         THEN [panicked |-> FALSE, tiles |-> [ts_tiles EXCEPT ![x + 1][y + 1] = tile],
               ret |-> TRUE]
         ELSE [panicked |-> TRUE, tiles |-> ts_tiles, ret |-> None]
    ELSE [panicked |-> FALSE, tiles |-> ts_tiles, ret |-> FALSE]

\* HashMap::get, ::insert and ::remove on the set of (key, value) entries
HashMap_get(map, k) ==
    IF \E e \in map : e[1] = k
    THEN Some((CHOOSE e \in map : e[1] = k)[2])
    ELSE None

\* an insert that keeps the entry a key already has
HashMap_insert_KeepOld(map, k, v) ==
    IF \E e \in map : e[1] = k THEN map ELSE map \cup {<<k, v>>}

HashMap_insert(map, k, v) == {e \in map : e[1] # k} \cup {<<k, v>>}

HashMap_remove(map, k) == {e \in map : e[1] # k}

\* TileSystem::save_config: saved_configs after the call
save_config(map, ts_tiles, name) ==
    LET config == [y \in 1..Len(ts_tiles) |->
                      [x \in 1..Len(ts_tiles[y]) |-> ts_tiles[y][x].tile_type]]
    IN  HashMap_insert(map, name, config)

\* the loops of load_config over the rows and cells of the stored config
load_config_tiles(config, ts_tiles, width, height) ==
    [row \in 1..Len(ts_tiles) |->
        [col \in 1..Len(ts_tiles[row]) |->
            LET y == row - 1
                x == col - 1
            IN  IF /\ y < Len(config)
                   /\ x < Len(config[y + 1])
                   /\ y < height
                   /\ x < width
                THEN TileOfType(config[y + 1][x + 1])
                ELSE ts_tiles[row][col]]]

\* a load that stores the current grid under a name it does not find
load_config_CreatesMissing(map, ts_tiles, width, height, name) ==
    LET found == HashMap_get(map, name)
    IN  IF found # None
        THEN [tiles |-> load_config_tiles(found[1], ts_tiles, width, height),
              saved_configs |-> map, ret |-> TRUE]
        ELSE [tiles |-> ts_tiles, saved_configs |-> save_config(map, ts_tiles, name),
              ret |-> FALSE]

\* TileSystem::load_config: the grid and saved_configs after the call, and the
\* value returned
load_config(map, ts_tiles, width, height, name) ==
    LET found == HashMap_get(map, name)
    IN  IF found # None
        THEN [tiles |-> load_config_tiles(found[1], ts_tiles, width, height),
              saved_configs |-> map, ret |-> TRUE]
        ELSE [tiles |-> ts_tiles, saved_configs |-> map, ret |-> FALSE]

\* TileSystem::delete_config: saved_configs after the call and the Result
delete_config(map, name) ==
    LET removed == HashMap_get(map, name)
    IN  IF removed # None
        THEN [saved_configs |-> HashMap_remove(map, name), ret |-> <<"Ok", removed[1]>>]
        ELSE [saved_configs |-> map, ret |-> <<"Err", name>>]

\* TileSystem::clear_map
clear_map(ts_tiles) ==
    [y \in 1..Len(ts_tiles) |-> [x \in 1..Len(ts_tiles[y]) |-> Tile_empty]]

\* the names typed at the prompts of main
ConfigNames == {"a", "b"}

\* tiles_at_save: no save of the name since its last delete_config / the grid
\* at the last save of the name
NotSaved == [saved |-> FALSE, tiles |-> << >>]
SavedAt(ts_tiles) == [saved |-> TRUE, tiles |-> ts_tiles]

\* the state after TileSystem::new, for a grid of width * height cells
SysInit(width, height) ==
    /\ grid_width = width
    /\ grid_height = height
    /\ tiles = TileSystem_new_tiles(width, height)
    /\ saved_configs = {}
    /\ pc = "idle"
    /\ op = <<"new">>
    /\ ret = None
    /\ original_tile = "Empty"
    /\ visited = << >>
    /\ stack = << >>
    /\ tiles_at_fill = << >>
    /\ tiles_at_save = [n \in ConfigNames |-> NotSaved]

\* the pure functions' part of the state while the TileSystem runs
WfcUnused ==
    /\ input_grid = << >>
    /\ tile_to_id = SpsTileToId
    /\ wfc_call = <<"none", 0>>
    /\ adjacency = NoOutcome
    /\ superposition_grid = << >>
    /\ sps = NoSps

\* a run that edits the map with three of the tile types
Init ==
    /\ WfcUnused
    /\ \E width \in 0..MaxCells, height \in 0..MaxCells :
        /\ width * height <= MaxCells
        /\ SysInit(width, height)
    /\ palette = {"Empty", "Mountain", "Water"}

\* a run that edits the map with two of the tile types and keeps named
\* configurations
ConfigInit ==
    /\ WfcUnused
    /\ \E width \in 0..MaxCells, height \in 0..MaxCells :
        /\ width * height <= MaxCells
        /\ SysInit(width, height)
    /\ palette = {"Empty", "Water"}

\* a call of set_tile (main's left click, and any other caller)
SetTile ==
    /\ pc = "idle"
    /\ \E x \in 0..grid_width, y \in 0..grid_height, t \in palette :
        LET tile == TileOfType(t)
            after == set_tile(tiles, grid_width, grid_height, x, y, tile)
        IN  /\ op' = <<"set_tile", x, y, tile>>
            /\ tiles' = after.tiles
            /\ ret' = after.ret
            /\ pc' = IF after.panicked THEN "panicked" ELSE "idle"
    /\ tiles_at_fill' = << >>
    /\ UNCHANGED <<grid_width, grid_height, saved_configs, palette, fill_vars, tiles_at_save>>
    /\ UNCHANGED wfc_vars

\* key C
ClearMap ==
    /\ pc = "idle"
    /\ op' = <<"clear_map">>
    /\ tiles' = clear_map(tiles)
    /\ ret' = Unit
    /\ tiles_at_fill' = << >>
    /\ UNCHANGED <<grid_width, grid_height, saved_configs, palette, pc, fill_vars, tiles_at_save>>
    /\ UNCHANGED wfc_vars

\* key S
SaveConfig ==
    /\ pc = "idle"
    /\ \E name \in ConfigNames :
        /\ op' = <<"save_config", name>>
        /\ saved_configs' = save_config(saved_configs, tiles, name)
        /\ tiles_at_save' = [tiles_at_save EXCEPT ![name] = SavedAt(tiles)]
    /\ ret' = Unit
    /\ tiles_at_fill' = << >>
    /\ UNCHANGED <<tiles, grid_width, grid_height, palette, pc, fill_vars>>
    /\ UNCHANGED wfc_vars

\* key L
LoadConfig ==
    /\ pc = "idle"
    /\ \E name \in ConfigNames :
        LET after == load_config(saved_configs, tiles, grid_width, grid_height, name)
        IN  /\ op' = <<"load_config", name>>
            /\ tiles' = after.tiles
            /\ saved_configs' = after.saved_configs
            /\ ret' = after.ret
    /\ tiles_at_fill' = << >>
    /\ UNCHANGED <<grid_width, grid_height, palette, pc, fill_vars, tiles_at_save>>
    /\ UNCHANGED wfc_vars

\* key D
DeleteConfig ==
    /\ pc = "idle"
    /\ \E name \in ConfigNames :
        LET after == delete_config(saved_configs, name)
        IN  /\ op' = <<"delete_config", name>>
            /\ saved_configs' = after.saved_configs
            /\ ret' = after.ret
            /\ tiles_at_save' = [tiles_at_save EXCEPT ![name] = NotSaved]
    /\ tiles_at_fill' = << >>
    /\ UNCHANGED <<tiles, grid_width, grid_height, palette, pc, fill_vars>>
    /\ UNCHANGED wfc_vars

\* the locals of fill_to_border once the call is over
FillLocalsDropped ==
    /\ original_tile' = "Empty"
    /\ visited' = << >>
    /\ stack' = << >>

\* fill_to_border up to its loop (main's right click, and any other caller)
FillCall ==
    /\ pc = "idle"
    /\ \E start_x \in 0..grid_width, start_y \in 0..grid_height, t \in palette :
        LET new_tile == TileOfType(t)
            start == get_tile(tiles, grid_width, grid_height, start_x, start_y)
        IN  /\ op' = <<"fill_to_border", start_x, start_y, new_tile>>
            /\ IF start = None \/ start[1].tile_type = new_tile.tile_type
               THEN /\ pc' = "idle"
                    /\ ret' = Unit
                    /\ UNCHANGED fill_vars
               ELSE /\ pc' = "fill"
                    /\ ret' = None
                    /\ original_tile' = start[1].tile_type
                    /\ visited' = [i \in 1..grid_height |-> [j \in 1..grid_width |-> FALSE]]
                    /\ stack' = << <<start_x, start_y>> >>
    /\ tiles_at_fill' = tiles
    /\ UNCHANGED <<tiles, grid_width, grid_height, saved_configs, palette, tiles_at_save>>
    /\ UNCHANGED wfc_vars

\* the elements one iteration pushes for the cell (x, y), in push order
Pushes(x, y, width, height) ==
    (IF x > 0 THEN << <<x - 1, y>> >> ELSE << >>)
    \o (IF x < width - 1 THEN << <<x + 1, y>> >> ELSE << >>)
    \o (IF y > 0 THEN << <<x, y - 1>> >> ELSE << >>)
    \o (IF y < height - 1 THEN << <<x, y + 1>> >> ELSE << >>)

\* one iteration of `while let Some((x, y)) = stack.pop()`
FillStep ==
    /\ pc = "fill"
    /\ stack # << >>
    /\ LET top == stack[Len(stack)]
           x == top[1]
           y == top[2]
           popped == SubSeq(stack, 1, Len(stack) - 1)
           new_tile == op[4]
       IN  IF x >= grid_width \/ y >= grid_height
           THEN /\ stack' = popped
                /\ UNCHANGED <<tiles, visited, pc>>
           ELSE IF ~(x < Len(visited) /\ y < Len(visited[x + 1]))
           THEN \* visited[x][y] is out of range
                /\ pc' = "panicked"
                /\ stack' = popped
                /\ UNCHANGED <<tiles, visited>>
           ELSE IF visited[x + 1][y + 1]
           THEN /\ stack' = popped
                /\ UNCHANGED <<tiles, visited, pc>>
           ELSE IF get_tile(tiles, grid_width, grid_height, x, y)[1].tile_type # original_tile
           THEN /\ stack' = popped
                /\ UNCHANGED <<tiles, visited, pc>>
           ELSE /\ visited' = [visited EXCEPT ![x + 1][y + 1] = TRUE]
                /\ tiles' = [tiles EXCEPT ![x + 1][y + 1] = new_tile]
                /\ stack' = popped \o Pushes(x, y, grid_width, grid_height)
                /\ UNCHANGED pc
    /\ UNCHANGED <<grid_width, grid_height, saved_configs, palette, op, ret, original_tile,
                   tiles_at_fill, tiles_at_save>>
    /\ UNCHANGED wfc_vars

\* stack.pop() gives None: the loop ends and fill_to_border returns
FillReturn ==
    /\ pc = "fill"
    /\ stack = << >>
    /\ pc' = "idle"
    /\ ret' = Unit
    /\ FillLocalsDropped
    /\ UNCHANGED <<tiles, grid_width, grid_height, saved_configs, palette, op,
                   tiles_at_fill, tiles_at_save>>
    /\ UNCHANGED wfc_vars

\* editing the map
Next ==
    \/ SetTile
    \/ ClearMap
    \/ FillCall
    \/ FillStep
    \/ FillReturn

Spec == Init /\ [][Next]_vars

\* editing the map and keeping named configurations
ConfigNext ==
    \/ SetTile
    \/ ClearMap
    \/ FillCall
    \/ FillStep
    \/ FillReturn
    \/ SaveConfig
    \/ LoadConfig
    \/ DeleteConfig

ConfigSpec == ConfigInit /\ [][ConfigNext]_vars

-----------------------------------------------------------------------------
(* Properties of the tile grid (Spec) *)

\* the cells of the grid, as (x, y) with x < grid_width and y < grid_height
Cells == (0..(grid_width - 1)) \X (0..(grid_height - 1))

\* what get_tile answers for the cell (x, y) of the grid g
TileAt(g, cell) == get_tile(g, grid_width, grid_height, cell[1], cell[2])[1]

\* C3: after set_tile(x, y, t) returns true, get_tile(x, y) returns t.
C3_SetThenGet ==
    (op[1] = "set_tile" /\ pc = "idle" /\ ret = TRUE) =>
        get_tile(tiles, grid_width, grid_height, op[2], op[3]) = Some(op[4])

\* two cells are 4-neighbours
Adjacent(p, q) ==
    \/ p[1] = q[1] /\ (p[2] = q[2] + 1 \/ q[2] = p[2] + 1)
    \/ p[2] = q[2] /\ (p[1] = q[1] + 1 \/ q[1] = p[1] + 1)

\* the cells of the grid g of type t reachable from the set S by 4-neighbour steps
RECURSIVE Connected(_, _, _)
Connected(g, t, S) ==
    LET more == {q \in Cells : /\ TileAt(g, q).tile_type = t
                               /\ \E p \in S : Adjacent(p, q)}
    IN  IF more \subseteq S THEN S ELSE Connected(g, t, S \cup more)

\* the 4-connected region of the start cell in the grid g
Region(g, start) == Connected(g, TileAt(g, start).tile_type, {start})

\* fill_to_border has returned
FillReturned == op[1] = "fill_to_border" /\ pc = "idle"

\* C9: fill_to_border from an in-bounds start cell of another type than
\* new_tile's sets exactly the cells of the start cell's 4-connected region
\* of its original type to new_tile and leaves every other cell unchanged;
\* from a start cell out of bounds or already of new_tile's type it changes
\* no cell.
C9_FillExactlyRegion ==
    FillReturned =>
        LET start == <<op[2], op[3]>>
            new_tile == op[4]
        IN  IF start \in Cells /\ TileAt(tiles_at_fill, start).tile_type # new_tile.tile_type
            THEN \A cell \in Cells :
                    TileAt(tiles, cell) =
                        IF cell \in Region(tiles_at_fill, start)
                        THEN new_tile
                        ELSE TileAt(tiles_at_fill, cell)
            ELSE tiles = tiles_at_fill

\* C10: fill_to_border terminates for every grid and every start cell: the
\* loop does not stop before the stack is empty, and then the call returns.
\* (That the loop cannot run forever is FillLoopEnds below.)
C10_FillReturns == op[1] = "fill_to_border" => pc # "panicked"

\* the loop of fill_to_border is scheduled until the call is over
FairSpec == Spec /\ WF_vars(FillStep) /\ WF_vars(FillReturn)

\* the loop of fill_to_border ends, by the call returning or by a panic
FillLoopEnds == (pc = "fill") ~> (pc # "fill")

-----------------------------------------------------------------------------
(* Properties of the saved configurations (ConfigSpec) *)

\* the grid of tile types of a grid of tiles
TypesOf(ts_tiles) ==
    [y \in 1..Len(ts_tiles) |-> [x \in 1..Len(ts_tiles[y]) |-> ts_tiles[y][x].tile_type]]

\* C5: saved_configs holds at most one entry per name, and the entry of a
\* name is the grid of tile types as it was at the most recent save_config of
\* the name that no delete_config of it followed (no entry when there is no
\* such save).
C5_SavedConfigsKeyedByName ==
    /\ \A e1 \in saved_configs, e2 \in saved_configs : e1[1] = e2[1] => e1 = e2
    /\ \A n \in ConfigNames :
        HashMap_get(saved_configs, n) =
            IF tiles_at_save[n].saved THEN Some(TypesOf(tiles_at_save[n].tiles)) ELSE None

\* both names hold an entry, the two entries differ, and the map has been
\* edited since both saves
C5_Witness ==
    /\ Cardinality(saved_configs) = 2
    /\ HashMap_get(saved_configs, "a") # HashMap_get(saved_configs, "b")
    /\ \A e \in saved_configs : e[2] # TypesOf(tiles)

\* C6: load_config and delete_config of a name that is not stored report it
\* (false, Err) and leave the tile grid and saved_configs as they were.
C6_MissingNameChangesNothing ==
    [][\A n \in ConfigNames :
        (/\ HashMap_get(saved_configs, n) = None
         /\ op'[1] \in {"load_config", "delete_config"}
         /\ op'[2] = n)
        => /\ op'[1] = "load_config" => ret' = FALSE
           /\ op'[1] = "delete_config" => ret'[1] = "Err"
           /\ tiles' = tiles
           /\ saved_configs' = saved_configs]_vars

\* load_config of a name that is not stored has returned false while the
\* other name holds an entry that differs from the edited map
C6_Witness ==
    /\ op = <<"load_config", "a">>
    /\ ret = FALSE
    /\ HashMap_get(saved_configs, "a") = None
    /\ HashMap_get(saved_configs, "b") # None
    /\ \A e \in saved_configs : e[2] # TypesOf(tiles)

\* C11: on a grid of any width and height, set_tile(x, y, tile) with
\* x < grid_width and y < grid_height returns true and changes exactly one
\* cell without indexing outside the stored rows and columns (no panic); with
\* x or y out of range it returns false and leaves the grid unchanged; in both
\* cases saved_configs and the grid dimensions are unchanged.
C11_SetTileFrame ==
    [][(pc = "idle" /\ op'[1] = "set_tile") =>
        LET x == op'[2]
            y == op'[3]
            tile == op'[4]
        IN  /\ (x < grid_width /\ y < grid_height) =>
                /\ pc' = "idle"
                /\ ret' = TRUE
                /\ \E row \in 1..Len(tiles) : \E col \in 1..Len(tiles[row]) :
                    tiles' = [tiles EXCEPT ![row][col] = tile]
            /\ ~(x < grid_width /\ y < grid_height) =>
                /\ pc' = "idle"
                /\ ret' = FALSE
                /\ tiles' = tiles
            /\ saved_configs' = saved_configs
            /\ grid_width' = grid_width
            /\ grid_height' = grid_height]_vars

-----------------------------------------------------------------------------
(* Properties of the wave function collapse functions (WfcSpec) *)

\* build_adjacency_rules has returned (it did not panic)
BuildReturned == wfc_call[1] = "build_adjacency_rules" /\ ~adjacency.panicked

\* the ids tile_to_id can produce
TileIds == {tile_to_id[t] : t \in TileType}

\* the rule set of tile id a in the returned map (none when a is no key)
RuleSet(a) == IF a \in DOMAIN adjacency.map THEN adjacency.map[a] ELSE {}

\* Up <-> Down, Left <-> Right
Inverse(d) ==
    CASE d = "Up" -> "Down"
      [] d = "Down" -> "Up"
      [] d = "Left" -> "Right"
      [] d = "Right" -> "Left"

\* C1: the rules build_adjacency_rules returns are symmetric: (d, b) is in the
\* rule set of a exactly when (inverse(d), a) is in the rule set of b.
C1_AdjacencySymmetric ==
    BuildReturned =>
        \A a \in TileIds, b \in TileIds, d \in Direction :
            (<<d, b>> \in RuleSet(a)) <=> (<<Inverse(d), a>> \in RuleSet(b))

\* build_adjacency_rules returned rules that relate two different tile ids
\* vertically and horizontally
C1_Witness ==
    /\ BuildReturned
    /\ \E a \in TileIds, b \in TileIds :
        /\ a # b
        /\ <<"Down", b>> \in RuleSet(a)
        /\ <<"Right", b>> \in RuleSet(a)

\* the step of a direction, as (row, column) offsets
RowStep(d) == CASE d = "Up" -> -1 [] d = "Down" -> 1 [] OTHER -> 0
ColStep(d) == CASE d = "Left" -> -1 [] d = "Right" -> 1 [] OTHER -> 0

\* the cell (r, c), 0-based, lies in the sample grid
InSample(r, c) ==
    /\ 0 <= r /\ r < Len(input_grid)
    /\ 0 <= c /\ c < Len(input_grid[r + 1])

\* the facts the sample grid shows for tile id a
ObservedFacts(a) ==
    {<<d, b>> \in Direction \X TileIds :
        \E r \in 0..(Len(input_grid) - 1) : \E c \in 0..(Len(input_grid[r + 1]) - 1) :
            /\ tile_to_id[input_grid[r + 1][c + 1]] = a
            /\ InSample(r + RowStep(d), c + ColStep(d))
            /\ tile_to_id[input_grid[r + RowStep(d) + 1][c + ColStep(d) + 1]] = b}

\* C2: build_adjacency_rules records exactly the observed in-bounds facts, as
\* a set: the rule set of every tile id is the set of (direction, neighbour
\* id) pairs that some cell holding the id shows, and border cells add
\* nothing for a direction that leaves the grid.
C2_ExactlyObservedFacts ==
    BuildReturned => \A a \in TileIds : RuleSet(a) = ObservedFacts(a)

\* build_adjacency_rules returned for a grid of two rows and two columns
\* (every cell on the border, every observation made twice or more when the
\* grid is uniform) that shows at least one fact
C2_Witness ==
    /\ BuildReturned
    /\ Len(input_grid) = 2
    /\ Len(input_grid[1]) = 2
    /\ input_grid[1][1] = input_grid[1][2]
    /\ \E a \in TileIds : <<"Up", a>> \in RuleSet(a) /\ <<"Left", a>> \in RuleSet(a)

\* create_superposition_grid has returned for the count n
CreateReturned(n) == wfc_call = <<"create_superposition_grid", n>>

\* C4: create_superposition_grid returns as many rows as the input grid has,
\* each as long as the input's first row, and every cell has the full
\* possibility set, entropy unique_tile_count and collapsed = false.
C4_FullSuperposition ==
    \A n \in 0..(MaxTileCount + 1) :
        CreateReturned(n) =>
            /\ Len(superposition_grid) = Len(input_grid)
            /\ \A r \in 1..Len(superposition_grid) :
                /\ Len(superposition_grid[r]) = Len(input_grid[1])
                /\ \A c \in 1..Len(superposition_grid[r]) :
                    /\ superposition_grid[r][c].possible_tiles = {i \in 0..(MaxTileCount + 1) : i < n}
                    /\ superposition_grid[r][c].entropy = n
                    /\ superposition_grid[r][c].collapsed = FALSE

\* create_superposition_grid returned a wave of two rows whose input rows
\* differ in length, for at least two tiles
C4_Witness ==
    /\ \E n \in 2..MaxTileCount : CreateReturned(n)
    /\ Len(input_grid) = 2
    /\ Len(input_grid[1]) = 2
    /\ Len(input_grid[2]) = 1
    /\ Len(superposition_grid) = 2

\* C7: a state made by SuperpositionState::new or ::from_tile has entropy
\* equal to the size of possible_tiles, is collapsed only with exactly one
\* possibility, and is never collapsed with none.
C7_SuperpositionStateInvariant ==
    wfc_call[1] \in {"SuperpositionState::new", "SuperpositionState::from_tile"} =>
        /\ sps.entropy = Cardinality(sps.possible_tiles)
        /\ sps.collapsed => Cardinality(sps.possible_tiles) = 1
        /\ sps.possible_tiles = {} => ~sps.collapsed

\* SuperpositionState::new(0) returned: a state with no possibility
C7_Witness ==
    /\ wfc_call = <<"SuperpositionState::new", 0>>
    /\ sps.possible_tiles = {}

\* C8: create_superposition_grid on a grid with no rows returns an empty
\* grid, and on a grid whose first row is empty returns rows without cells.
C8_ZeroDimension ==
    wfc_call[1] = "create_superposition_grid" =>
        /\ Len(input_grid) = 0 => superposition_grid = << >>
        /\ (Len(input_grid) > 0 /\ Len(input_grid[1]) = 0) =>
              /\ Len(superposition_grid) = Len(input_grid)
              /\ \A r \in 1..Len(superposition_grid) : superposition_grid[r] = << >>

\* create_superposition_grid returned for a grid of two rows whose first row
\* is empty
C8_Witness ==
    /\ wfc_call[1] = "create_superposition_grid"
    /\ Len(input_grid) = 2
    /\ Len(input_grid[1]) = 0
    /\ Len(superposition_grid) = 2

=============================================================================
